---------------------------- MODULE Spec2Model ----------------------------
(***************************************************************************)
(* A model of the Stellaris save parser (rust_parser): the nom grammar of  *)
(* parser.rs, the repeated-key fold of parse_map_inner, parse_file and the *)
(* save orchestrator parse_save with its two Python entry points (lib.rs). *)
(*                                                                         *)
(* Text is a sequence of one-character strings.  A nom IResult is a record *)
(* [st, rest, val] with st one of "Ok", "Error" (recoverable: alt tries    *)
(* the next branch), "Failure" (cut: alt gives up) and "Incomplete" (a     *)
(* streaming combinator ran out of input: alt gives up as well).           *)
(***************************************************************************)
EXTENDS Integers, Sequences, FiniteSets, TLC

VARIABLES
    \* the loop of parse_map_inner: the map built so far, the keys already
    \* wrapped, and the pairs of kv_list consumed so far
    hm, handled_nested_list_keys, kv_list,
    \* one call of a parser function: its input, which function, its result
    input, op, result,
    \* parse_save and its callers: which Python function was called and on
    \* which path, the SaveFile, the position in the orchestrator, the two
    \* parsed documents, the Result of parse_save, what the caller returns
    caller, save_path, save_file, pc, meta, gamestate, parsed_save, py_result,
    \* the activations of parse_map_inner, the enclosing body first; every
    \* key any loop has wrapped so far; the pairs parsed so far in all bodies
    frames, all_handled, pairs_parsed

foldVars == <<hm, handled_nested_list_keys, kv_list>>
parseVars == <<input, op, result>>
saveVars == <<caller, save_path, save_file, pc, meta, gamestate, parsed_save,
              py_result>>
nestVars == <<frames, all_handled, pairs_parsed>>
vars == <<hm, handled_nested_list_keys, kv_list, input, op, result,
          caller, save_path, save_file, pc, meta, gamestate, parsed_save,
          py_result, frames, all_handled, pairs_parsed>>

(***************************************************************************)
(* Bounds of the model.                                                    *)
(***************************************************************************)
MaxPairs == 4
MaxTokens == 3
MaxStrLen == 6
MaxDepth == 2
MaxNestPairs == 5

(***************************************************************************)
(* enum Value                                                              *)
(***************************************************************************)
Value_Str(s) == [tag |-> "Str", s |-> s]
Value_Int(n) == [tag |-> "Int", n |-> n]
Value_Float(x) == [tag |-> "Float", f |-> x]
Value_List(vec) == [tag |-> "List", items |-> vec]
Value_Map(m) == [tag |-> "Map", hm |-> m]
Value_Color(c) == [tag |-> "Color", c |-> c]

IsList(v) == v.tag = "List"

(***************************************************************************)
(* Text and characters.                                                    *)
(***************************************************************************)
Take(s, n) == SubSeq(s, 1, n)
Drop(s, n) == SubSeq(s, n + 1, Len(s))
CharAt(s, n, c) == Len(s) >= n /\ s[n] = c

\* a local binding: the value v under the name F gives its parameter
With(v, F(_)) == F(v)

\* nom's multispace0 / multispace1: space, tab, carriage return, line feed
MultiSpace == {" ", "\t", "\r", "\n"}
\* char::is_whitespace: the above and further characters, here form feed
Whitespace == MultiSpace \cup {"\f"}
Digits == {"0", "1", "2", "3", "4", "5", "6", "7", "8", "9"}
DigitValue(c) ==
    CASE c = "0" -> 0 [] c = "1" -> 1 [] c = "2" -> 2 [] c = "3" -> 3
      [] c = "4" -> 4 [] c = "5" -> 5 [] c = "6" -> 6 [] c = "7" -> 7
      [] c = "8" -> 8 [] c = "9" -> 9

\* to_ascii_lowercase on the letters of the words nan, inf, infinity
ToLower(c) ==
    CASE c = "N" -> "n" [] c = "A" -> "a" [] c = "I" -> "i" [] c = "F" -> "f"
      [] c = "T" -> "t" [] c = "Y" -> "y" [] OTHER -> c
LowerCase(s) == [i \in 1..Len(s) |-> ToLower(s[i])]

\* the length of the longest prefix of s whose characters are all in set
PrefixLen(s, set) ==
    With({i \in 1..Len(s) : s[i] \notin set}, LAMBDA bad :
        IF bad = {} THEN Len(s)
        ELSE (CHOOSE i \in bad : \A j \in bad : i <= j) - 1)

(***************************************************************************)
(* nom's IResult and the combinators the grammar uses.                     *)
(***************************************************************************)
Ok(rest, val) == [st |-> "Ok", rest |-> rest, val |-> val]
Err(kind) == [st |-> kind]
IsOk(r) == r.st = "Ok"

\* sequencing (tuple, preceded, delimited, `?`): an error of r is the result
Bind(r, F(_)) == IF IsOk(r) THEN F(r) ELSE r
\* alt: the second branch is tried only after a recoverable Error
Alt(r, q) == IF r.st # "Error" THEN r ELSE q

tag(t, i) ==
    IF Len(i) >= Len(t) /\ Take(i, Len(t)) = t
    THEN Ok(Drop(i, Len(t)), t) ELSE Err("Error")

tag_no_case(t, i) ==
    IF Len(i) >= Len(t) /\ LowerCase(Take(i, Len(t))) = LowerCase(t)
    THEN Ok(Drop(i, Len(t)), Take(i, Len(t))) ELSE Err("Error")

multispace0(i) ==
    With(PrefixLen(i, MultiSpace), LAMBDA n : Ok(Drop(i, n), Take(i, n)))

multispace1(i) ==
    With(PrefixLen(i, MultiSpace), LAMBDA n :
        IF n >= 1 THEN Ok(Drop(i, n), Take(i, n)) ELSE Err("Error"))

\* the input after preceded(multispace0, ...)'s whitespace
ws(i) == multispace0(i).rest

(***************************************************************************)
(* nom::number::complete::double under recognize(...), as parse_int and    *)
(* parse_float call it: recognize_float (sign, digits, fraction, exponent  *)
(* with cut(digit1)), else the words nan, inf, infinity in any case.       *)
(***************************************************************************)
\* opt(alt((char('+'), char('-'))))
SignLen(i) == IF i # <<>> /\ i[1] \in {"+", "-"} THEN 1 ELSE 0

\* alt(( (digit1, opt(pair(char('.'), opt(digit1)))), (char('.'), digit1) )):
\* the length taken, 0 when neither branch matches
MantissaLen(a) ==
    With(PrefixLen(a, Digits), LAMBDA d :
        IF d >= 1
        THEN IF CharAt(a, d + 1, ".")
             THEN d + 1 + PrefixLen(Drop(a, d + 1), Digits)
             ELSE d
        ELSE IF CharAt(a, 1, ".")
             THEN With(PrefixLen(Drop(a, 1), Digits), LAMBDA f :
                      IF f >= 1 THEN 1 + f ELSE 0)
             ELSE 0)

\* opt(tuple((alt((char('e'), char('E'))), opt(sign), cut(digit1)))): the
\* length taken, 0 without an exponent, -1 when cut(digit1) fails
ExponentLen(b) ==
    IF b = <<>> \/ b[1] \notin {"e", "E"} THEN 0
    ELSE With(SignLen(Drop(b, 1)), LAMBDA es :
         With(PrefixLen(Drop(b, 1 + es), Digits), LAMBDA ed :
             IF ed = 0 THEN -1 ELSE 1 + es + ed))

recognize_float(i) ==
    With(SignLen(i), LAMBDA s :
    With(MantissaLen(Drop(i, s)), LAMBDA m :
        IF m = 0 THEN Err("Error")
        ELSE With(ExponentLen(Drop(i, s + m)), LAMBDA x :
            IF x < 0 THEN Err("Failure")
            ELSE Ok(Drop(i, s + m + x), Take(i, s + m + x)))))

recognize_double(i) ==
    Alt(recognize_float(i),
    Alt(tag_no_case(<<"n", "a", "n">>, i),
    Alt(tag_no_case(<<"i", "n", "f">>, i),
        tag_no_case(<<"i", "n", "f", "i", "n", "i", "t", "y">>, i))))

(***************************************************************************)
(* str::parse::<i64> and str::parse::<f64> on a recognized slice.  No text *)
(* of the model is long enough to leave the range of an i64.               *)
(***************************************************************************)
RECURSIVE DecimalValue(_)
DecimalValue(ds) ==
    IF ds = <<>> THEN 0
    ELSE 10 * DecimalValue(Take(ds, Len(ds) - 1)) + DigitValue(ds[Len(ds)])

ParseOk(v) == [ok |-> TRUE, val |-> v]
ParseErr == [ok |-> FALSE]

parse_i64(s) ==
    With(Drop(s, SignLen(s)), LAMBDA ds :
        IF ds # <<>> /\ PrefixLen(ds, Digits) = Len(ds)
        THEN ParseOk(IF CharAt(s, 1, "-") THEN 0 - DecimalValue(ds)
                     ELSE DecimalValue(ds))
        ELSE ParseErr)

\* an f64: NaN, an infinity, or the decimal neg * m * 10^e with m not a
\* multiple of 10 (e = 0 when m = 0)
F64(k, neg, m, e) == [k |-> k, neg |-> neg, m |-> m, e |-> e]
NaN == F64("nan", FALSE, 0, 0)

RECURSIVE Normalize(_, _, _)
Normalize(neg, m, e) ==
    IF m = 0 THEN F64("fin", neg, 0, 0)
    ELSE IF m % 10 = 0 THEN Normalize(neg, m \div 10, e + 1)
    ELSE F64("fin", neg, m, e)

\* the value of the exponent part b of a decimal ("" or e[sign]digits)
ExponentValue(b) == IF b = <<>> THEN 0 ELSE parse_i64(Drop(b, 1)).val

\* the value of the unsigned decimal a: digits [. digits] [exponent]
DecimalF64(neg, a) ==
    With(PrefixLen(a, Digits), LAMBDA ip :
    With(IF CharAt(a, ip + 1, ".") THEN 1 ELSE 0, LAMBDA dl :
    With(IF dl = 1 THEN PrefixLen(Drop(a, ip + 1), Digits) ELSE 0, LAMBDA fp :
        Normalize(neg,
                  DecimalValue(Take(a, ip) \o SubSeq(a, ip + dl + 1, ip + dl + fp)),
                  ExponentValue(Drop(a, ip + dl + fp)) - fp))))

parse_f64(s) ==
    With(Drop(s, SignLen(s)), LAMBDA a :
        IF LowerCase(a) = <<"n", "a", "n">> THEN ParseOk(NaN)
        ELSE IF LowerCase(a) \in
                  {<<"i", "n", "f">>, <<"i", "n", "f", "i", "n", "i", "t", "y">>}
        THEN ParseOk(F64("inf", CharAt(s, 1, "-"), 0, 0))
        ELSE With(recognize_float(s), LAMBDA r :
            IF IsOk(r) /\ r.rest = <<>>
            THEN ParseOk(DecimalF64(CharAt(s, 1, "-"), a))
            ELSE ParseErr))

(***************************************************************************)
(* HashMap<&str, Value>: a function from the keys present to their values. *)
(***************************************************************************)
EmptyMap == [k \in {} |-> 0]
hm_remove(m, key) == [k \in (DOMAIN m) \ {key} |-> m[k]]
hm_insert(m, key, value) ==
    [k \in (DOMAIN m) \cup {key} |-> IF k = key THEN value ELSE m[k]]

(***************************************************************************)
(* parse_map_inner, one iteration of `for (key, value) in kv_list`, on the *)
(* pair of the map and the set handled_nested_list_keys.                   *)
(***************************************************************************)
FoldState(m, handled) == [hm |-> m, handled |-> handled]

\* fold_pair with the wrap forgetting handled_nested_list_keys.insert(key)
fold_pair_wrap_unrecorded(fs, key, value) ==
    IF key \notin DOMAIN fs.hm
    THEN FoldState(hm_insert(fs.hm, key, value), fs.handled)
    ELSE LET old_value == fs.hm[key]
             removed == hm_remove(fs.hm, key)
         IN  IF IsList(old_value)
             THEN IF IsList(value) /\ key \notin fs.handled
                  THEN FoldState(
                         hm_insert(removed, key, Value_List(<<old_value, value>>)),
                         fs.handled)
                  ELSE FoldState(
                         hm_insert(removed, key,
                                   Value_List(Append(old_value.items, value))),
                         fs.handled)
             ELSE FoldState(
                    hm_insert(removed, key, Value_List(<<old_value, value>>)),
                    fs.handled)

\* fold_pair with the promotion of a scalar building vec![value, other_value]
fold_pair_promote_reversed(fs, key, value) ==
    IF key \notin DOMAIN fs.hm
    THEN FoldState(hm_insert(fs.hm, key, value), fs.handled)
    ELSE LET old_value == fs.hm[key]
             removed == hm_remove(fs.hm, key)
         IN  IF IsList(old_value)
             THEN IF IsList(value) /\ key \notin fs.handled
                  THEN FoldState(
                         hm_insert(removed, key, Value_List(<<old_value, value>>)),
                         fs.handled \cup {key})
                  ELSE FoldState(
                         hm_insert(removed, key,
                                   Value_List(Append(old_value.items, value))),
                         fs.handled)
             ELSE FoldState(
                    hm_insert(removed, key, Value_List(<<value, old_value>>)),
                    fs.handled)

\* fold_pair without the hm.remove / match: a plain hm.insert(key, value)
fold_pair_overwrite(fs, key, value) ==
    FoldState(hm_insert(fs.hm, key, value), fs.handled)

\* fold_pair with a value that is no list kept beside the stored list, as
\* vec![Value::List(vec), value], instead of vec.push(value)
fold_pair_beside_list(fs, key, value) ==
    IF key \notin DOMAIN fs.hm
    THEN FoldState(hm_insert(fs.hm, key, value), fs.handled)
    ELSE LET old_value == fs.hm[key]
             removed == hm_remove(fs.hm, key)
         IN  IF IsList(old_value)
             THEN IF IsList(value) /\ key \notin fs.handled
                  THEN FoldState(
                         hm_insert(removed, key, Value_List(<<old_value, value>>)),
                         fs.handled \cup {key})
                  ELSE IF ~IsList(value) /\ key \notin fs.handled
                  THEN FoldState(
                         hm_insert(removed, key, Value_List(<<old_value, value>>)),
                         fs.handled)
                  ELSE FoldState(
                         hm_insert(removed, key,
                                   Value_List(Append(old_value.items, value))),
                         fs.handled)
             ELSE FoldState(
                    hm_insert(removed, key, Value_List(<<old_value, value>>)),
                    fs.handled)

fold_pair(fs, key, value) ==
    IF key \notin DOMAIN fs.hm
    THEN \* None => hm.insert(key, value)
         FoldState(hm_insert(fs.hm, key, value), fs.handled)
    ELSE LET old_value == fs.hm[key]
             removed == hm_remove(fs.hm, key)
         IN  IF IsList(old_value)
             THEN IF IsList(value) /\ key \notin fs.handled
                  THEN \* (Value::List(new_vec), false)
                       FoldState(
                         hm_insert(removed, key, Value_List(<<old_value, value>>)),
                         fs.handled \cup {key})
                  ELSE \* (value, _) => vec.push(value)
                       FoldState(
                         hm_insert(removed, key,
                                   Value_List(Append(old_value.items, value))),
                         fs.handled)
             ELSE \* Some(other_value)
                  FoldState(
                    hm_insert(removed, key, Value_List(<<old_value, value>>)),
                    fs.handled)

RECURSIVE fold_from(_, _, _)
fold_from(fs, kvs, i) ==
    IF i > Len(kvs) THEN fs
    ELSE fold_from(fold_pair(fs, kvs[i][1], kvs[i][2]), kvs, i + 1)

\* the whole loop of parse_map_inner over a kv_list
fold_kv_list(kvs) == fold_from(FoldState(EmptyMap, {}), kvs, 1)

(***************************************************************************)
(* The leaf parsers of parser.rs.                                          *)
(***************************************************************************)
parse_date_str(input_) ==
    With(PrefixLen(input_, Digits), LAMBDA d1 :
        IF ~CharAt(input_, d1 + 1, ".") THEN Err("Error")
        ELSE With(PrefixLen(Drop(input_, d1 + 1), Digits), LAMBDA d2 :
            IF ~CharAt(input_, d1 + d2 + 2, ".") THEN Err("Error")
            ELSE With(d1 + d2 + 2 + PrefixLen(Drop(input_, d1 + d2 + 2), Digits),
                      LAMBDA n : Ok(Drop(input_, n), Take(input_, n)))))

parse_int(input_) ==
    Bind(recognize_double(ws(input_)), LAMBDA r :
    With(parse_i64(r.val), LAMBDA n :
        IF n.ok THEN Ok(r.rest, n.val) ELSE Err("Error")))

parse_float(input_) ==
    IF IsOk(tag(<<"n", "a", "n">>, ws(input_))) THEN Err("Error")
    ELSE Bind(recognize_double(ws(input_)), LAMBDA r :
         With(parse_f64(r.val), LAMBDA x :
             IF x.ok THEN Ok(r.rest, x.val) ELSE Err("Error")))

\* nom::bytes::streaming::escaped(none_of("\"\\"), '\\', one_of("\"\\")),
\* with n characters of i already taken
QuoteOrBackslash == {"\"", "\\"}

\* escaped whose escapable is one_of("\"") only
RECURSIVE escaped_quote_only(_, _)
escaped_quote_only(i, n) ==
    IF n >= Len(i) THEN Err("Incomplete")
    ELSE IF i[n + 1] \notin QuoteOrBackslash
    THEN IF n + 1 = Len(i) THEN Err("Incomplete")
         ELSE escaped_quote_only(i, n + 1)
    ELSE IF i[n + 1] = "\\"
    THEN IF n + 1 >= Len(i) THEN Err("Incomplete")
         ELSE IF i[n + 2] = "\""
         THEN IF n + 2 = Len(i) THEN Err("Incomplete")
              ELSE escaped_quote_only(i, n + 2)
         ELSE Err("Error")
    ELSE Ok(Drop(i, n), Take(i, n))

RECURSIVE escaped(_, _)
escaped(i, n) ==
    IF n >= Len(i) THEN Err("Incomplete")
    ELSE IF i[n + 1] \notin QuoteOrBackslash
    THEN \* normal took one character
         IF n + 1 = Len(i) THEN Err("Incomplete") ELSE escaped(i, n + 1)
    ELSE IF i[n + 1] = "\\"
    THEN IF n + 1 >= Len(i) THEN Err("Incomplete")
         ELSE IF i[n + 2] \in QuoteOrBackslash
         THEN IF n + 2 = Len(i) THEN Err("Incomplete") ELSE escaped(i, n + 2)
         ELSE Err("Error")
    ELSE Ok(Drop(i, n), Take(i, n))

\* parse_str with the two quotes left in the slice: recognize(delimited(...))
parse_str_with_quotes(input_) ==
    Bind(tag(<<"\"">>, ws(input_)), LAMBDA o :
    Bind(escaped(o.rest, 0), LAMBDA e :
    Bind(tag(<<"\"">>, e.rest), LAMBDA c :
        Ok(c.rest, <<"\"">> \o e.val \o <<"\"">>))))

parse_str(input_) ==
    Bind(tag(<<"\"">>, ws(input_)), LAMBDA o :
    Bind(escaped(o.rest, 0), LAMBDA e :
    Bind(tag(<<"\"">>, e.rest), LAMBDA c :
        Ok(c.rest, e.val))))

_is_valid_unquoted_str_char(c) ==
    /\ c \notin Whitespace
    /\ c \notin {"\"", "=", "{", "}", "<", ">", "[", "]", "#", "$", "|"}

\* take_while1(_is_valid_unquoted_str_char): the length it takes of a
UnquotedLen(a) ==
    PrefixLen(a, {c \in {a[j] : j \in 1..Len(a)} : _is_valid_unquoted_str_char(c)})

parse_unquoted_str(input_) ==
    With(UnquotedLen(ws(input_)), LAMBDA n :
        IF n >= 1 THEN Ok(Drop(ws(input_), n), Take(ws(input_), n))
        ELSE Err("Error"))

parse_color(input_) ==
    Bind(Alt(tag(<<"r", "g", "b">>, ws(input_)),
             tag(<<"h", "s", "v">>, ws(input_))), LAMBDA color_space :
    Bind(tag(<<"{">>, ws(color_space.rest)), LAMBDA ob :
    Bind(parse_float(ob.rest), LAMBDA v1 :
    Bind(parse_float(v1.rest), LAMBDA v2 :
    Bind(parse_float(v2.rest), LAMBDA v3 :
    Bind(tag(<<"}">>, ws(v3.rest)), LAMBDA cb :
        Ok(cb.rest, <<color_space.val, v1.val, v2.val, v3.val>>)))))))

\* the separator with the `=` optional: opt(tag("="))
parse_map_key_value_separator_optional(input_) ==
    With(tag(<<"=">>, ws(input_)), LAMBDA eq :
        IF IsOk(eq) THEN Ok(ws(eq.rest), eq.val) ELSE Ok(ws(input_), <<>>))

parse_map_key_value_separator(input_) ==
    Bind(tag(<<"=">>, ws(input_)), LAMBDA eq : Ok(ws(eq.rest), eq.val))

\* alt((parse_str, parse_unquoted_str)), the key of a pair
parse_key(input_) == Alt(parse_str(input_), parse_unquoted_str(input_))

(***************************************************************************)
(* The recursive grammar: values, lists, maps.                             *)
(***************************************************************************)
\* map(parser, Value::<tagname>)
map_value(r, tagname) ==
    IF ~IsOk(r) THEN r
    ELSE Ok(r.rest,
            CASE tagname = "Str" -> Value_Str(r.val)
              [] tagname = "Int" -> Value_Int(r.val)
              [] tagname = "Float" -> Value_Float(r.val)
              [] tagname = "Color" -> Value_Color(r.val)
              [] tagname = "List" -> Value_List(r.val)
              [] tagname = "Map" -> Value_Map(r.val))

RECURSIVE parse_value(_), parse_list(_), parse_list_inner(_), list_more(_, _),
          parse_map(_), parse_map_inner(_), parse_map_kv_list(_),
          kv_list_more(_, _), parse_map_key_value_pair(_), skipped_key_value(_)

parse_value(input_) ==
    Alt(map_value(parse_date_str(input_), "Str"),
    Alt(map_value(parse_int(input_), "Int"),
    Alt(map_value(parse_float(input_), "Float"),
    Alt(map_value(parse_str(input_), "Str"),
    Alt(map_value(parse_color(input_), "Color"),
    Alt(map_value(parse_unquoted_str(input_), "Str"),
    Alt(map_value(parse_list(input_), "List"),
        map_value(parse_map(input_), "Map"))))))))

parse_list(input_) ==
    Bind(tag(<<"{">>, input_), LAMBDA o :
    Bind(parse_list_inner(ws(o.rest)), LAMBDA b :
    Bind(tag(<<"}">>, ws(b.rest)), LAMBDA c :
        Ok(c.rest, b.val))))

\* separated_list0(multispace1, parse_value) after its first element
list_more(i, res) ==
    With(multispace1(i), LAMBDA s :
        IF ~IsOk(s) THEN Ok(i, res)
        ELSE With(parse_value(s.rest), LAMBDA f :
            IF f.st = "Error" THEN Ok(i, res)
            ELSE IF ~IsOk(f) THEN f
            ELSE list_more(f.rest, Append(res, f.val))))

parse_list_inner(input_) ==
    With(parse_value(input_), LAMBDA f :
        IF f.st = "Error" THEN Ok(input_, <<>>)
        ELSE IF ~IsOk(f) THEN f
        ELSE list_more(f.rest, <<f.val>>))

parse_map(input_) ==
    Bind(tag(<<"{">>, ws(input_)), LAMBDA o :
    Bind(parse_map_inner(o.rest), LAMBDA b :
    Bind(tag(<<"}">>, ws(b.rest)), LAMBDA c :
        Ok(c.rest, b.val))))

parse_map_inner(input_) ==
    Bind(parse_map_kv_list(input_), LAMBDA r :
        Ok(r.rest, fold_kv_list(r.val).hm))

\* separated_list1(multispace1, parse_map_key_value_pair) after its first pair
kv_list_more(i, res) ==
    With(multispace1(i), LAMBDA s :
        IF ~IsOk(s) THEN Ok(i, res)
        ELSE With(parse_map_key_value_pair(s.rest), LAMBDA f :
            IF f.st = "Error" THEN Ok(i, res)
            ELSE IF ~IsOk(f) THEN f
            ELSE kv_list_more(f.rest, Append(res, f.val))))

\* the list of pairs under separated_list0: no pair is accepted
parse_map_kv_list_or_none(input_) ==
    With(parse_map_key_value_pair(ws(input_)), LAMBDA f :
        IF f.st = "Error" THEN Ok(ws(input_), <<>>)
        ELSE Bind(f, LAMBDA g :
             Bind(kv_list_more(g.rest, <<g.val>>), LAMBDA l :
                 Ok(ws(l.rest), l.val))))

parse_map_kv_list(input_) ==
    Bind(parse_map_key_value_pair(ws(input_)), LAMBDA f :
    Bind(kv_list_more(f.rest, <<f.val>>), LAMBDA l :
        Ok(ws(l.rest), l.val)))

\* preceded(pair(parse_unquoted_str, parse_map_key_value_separator), parse_value)
skipped_key_value(input_) ==
    Bind(parse_unquoted_str(input_), LAMBDA k2 :
    Bind(parse_map_key_value_separator(k2.rest), LAMBDA s2 :
        parse_value(s2.rest)))

\* the pair with the two branches of its value swapped: parse_value first
parse_map_key_value_pair_value_first(input_) ==
    Bind(parse_key(input_), LAMBDA k :
    Bind(parse_map_key_value_separator(k.rest), LAMBDA s :
    Bind(Alt(parse_value(s.rest), skipped_key_value(s.rest)), LAMBDA v :
        Ok(v.rest, <<k.val, v.val>>))))

parse_map_key_value_pair(input_) ==
    Bind(parse_key(input_), LAMBDA k :
    Bind(parse_map_key_value_separator(k.rest), LAMBDA s :
    Bind(Alt(skipped_key_value(s.rest), parse_value(s.rest)), LAMBDA v :
        Ok(v.rest, <<k.val, v.val>>))))

(***************************************************************************)
(* parse_file: Result<Value, &str>                                         *)
(***************************************************************************)
ParsingFailed ==
    <<"P", "a", "r", "s", "i", "n", "g", " ", "f", "a", "i", "l", "e", "d">>
ResultOk(v) == [ok |-> TRUE, val |-> v]
ResultErr(e) == [ok |-> FALSE, err |-> e]

\* parse_file without the test of the remainder
parse_file_any_remainder(input_) ==
    With(parse_map_inner(input_), LAMBDA r :
        IF IsOk(r) THEN ResultOk(Value_Map(r.val))
        ELSE ResultErr(ParsingFailed))

parse_file(input_) ==
    With(parse_map_inner(input_), LAMBDA r :
        IF IsOk(r)
        THEN IF \A j \in 1..Len(r.rest) : r.rest[j] \in Whitespace
             THEN ResultOk(Value_Map(r.val))
             ELSE ResultErr(r.rest)
        ELSE ResultErr(ParsingFailed))

(***************************************************************************)
(* The fold as a state machine: the pairs of one map body arrive one by    *)
(* one, each drawn from a small set of keys and values.                    *)
(***************************************************************************)
FoldKeys == {<<"x">>, <<"y">>}
FoldValues ==
    { Value_Int(1), Value_Str(<<"a">>), Value_List(<<>>), Value_List(<<Value_Int(1)>>),
      Value_List(<<Value_Int(1), Value_Int(2)>>),
      Value_Map([k \in {<<"x">>} |-> Value_List(<<>>)]) }

NoResult == [st |-> "None"]

\* one activation of parse_map_inner: the key its Map will be the value of,
\* its kv_list, the pairs of it the loop has consumed, and its two locals
Frame(key) ==
    [key |-> key, kv |-> <<>>, i |-> 0, hm |-> EmptyMap, handled |-> {}]

NestInit ==
    /\ frames = <<Frame(<<>>)>>
    /\ all_handled = {}
    /\ pairs_parsed = 0

NoSave == [filename |-> <<>>, game_id |-> <<>>, meta |-> <<>>, gamestate |-> <<>>]

FoldInit ==
    /\ hm = EmptyMap
    /\ handled_nested_list_keys = {}
    /\ kv_list = <<>>

ParseIdle ==
    /\ input = <<>>
    /\ op = "none"
    /\ result = NoResult

SaveIdle ==
    /\ caller = "none"
    /\ save_path = <<>>
    /\ save_file = NoSave
    /\ pc = "idle"
    /\ meta = NoResult
    /\ gamestate = NoResult
    /\ parsed_save = NoResult
    /\ py_result = NoResult

Init == FoldInit /\ ParseIdle /\ SaveIdle /\ NestInit

FoldPair(key, value) ==
    /\ Len(kv_list) < MaxPairs
    /\ LET fs == fold_pair(FoldState(hm, handled_nested_list_keys), key, value)
       IN  /\ hm' = fs.hm
           /\ handled_nested_list_keys' = fs.handled
    /\ kv_list' = Append(kv_list, <<key, value>>)
    /\ UNCHANGED <<parseVars, saveVars, nestVars>>

Next == \E key \in FoldKeys, value \in FoldValues : FoldPair(key, value)

Spec == Init /\ [][Next]_vars

(***************************************************************************)
(* One call of a parser function on an input text.  The inputs: every      *)
(* concatenation of at most MaxTokens tokens, every text of at most        *)
(* MaxStrLen string characters, and pairs, skip-key pairs and values       *)
(* followed by a tail.                                                     *)
(***************************************************************************)
\* the texts of keys
KeyTexts ==
    { <<"k">>,
      <<"j">>,
      <<"\"", "k", "\"">>,   \* a quoted key
      <<"1">> }

\* the texts between the two separators of `k1 = k2 = v`
SecondKeyTexts ==
    { <<"j">>,
      <<"1">>,
      <<"\"", "j", "\"">> }   \* quoted: no skip-key form

\* separators with their `=`
SeparatorTexts ==
    { <<"=">>,
      <<" ", "=", " ">> }

\* whitespace alone between a key and its value
BlankTexts ==
    { <<" ">>,
      <<"\n">> }

\* the texts of values
ValueTexts ==
    { <<"1">>,
      <<"-", "1", "2">>,
      <<"1", ".", "5">>,
      <<"1", ".", "1", ".", "1">>,   \* a date
      <<"v">>,
      <<"\"", "a", "\"">>,
      <<"\"", "a", "\\", "\"", "b", "\"">>,   \* an escaped quote
      <<"{", "}">>,
      <<"{", "1", " ", "v", "}">>,
      <<"{", "k", "=", "1", "}">>,
      <<"{", "k", "=", "1", " ", "k", "=", "v", "}">>,
      <<"r", "g", "b", "{", "1", " ", "2", " ", "3", "}">>,
      <<"r", "g", "b", "{", "N", "a", "N", " ", "1", " ", "2", "}">>,
      <<"n", "a", "n">>,
      <<"N", "a", "N">>,
      <<"n", "a", "n", "o">>,
      <<"N", "a", "n", "o">>,
      <<"1", "e">>,   \* an exponent without digits
      <<"\"", "a">> }   \* a string left open

\* what follows a pair or a value
TailTexts ==
    { <<>>,
      <<" ">>,
      <<"\f">>,   \* whitespace that multispace0 does not take
      <<" ", "x">>,
      <<"}">>,
      <<" ", "k", "=", "1">>,
      <<"\n", "j", "=", "v">> }

\* the tokens of the short inputs
Tokens ==
    { <<"k">>,
      <<"=">>,
      <<" ">>,
      <<"{">>,
      <<"}">>,
      <<"1">>,
      <<".">>,
      <<"\"">>,
      <<"e">>,
      <<"-">>,
      <<"n", "a", "n">>,
      <<"N", "a", "N">>,
      <<"r", "g", "b">> }

\* the characters of the quoted-string inputs
StrChars ==
    { <<"\"">>,
      <<"\\">>,
      <<"a">>,
      <<" ">> }

RECURSIVE Flatten(_)
Flatten(ss) == IF ss = <<>> THEN <<>> ELSE Head(ss) \o Flatten(Tail(ss))

SeqsUpTo(S, n) == UNION {[1..m -> S] : m \in 0..n}
Cat(A, B) == {a \o b : a \in A, b \in B}

ShortInputs == {Flatten(ts) : ts \in SeqsUpTo(Tokens, MaxTokens)}
StrInputs == {Flatten(cs) : cs \in SeqsUpTo(StrChars, MaxStrLen)}
PairInputs == Cat(KeyTexts, Cat(SeparatorTexts \cup BlankTexts, ValueTexts))
SkipKeyInputs ==
    Cat(KeyTexts, Cat(SeparatorTexts,
        Cat(SecondKeyTexts, Cat(SeparatorTexts, ValueTexts))))
Inputs ==
    ShortInputs \cup StrInputs
        \cup Cat(ValueTexts \cup PairInputs \cup SkipKeyInputs, TailTexts)

ParseInit ==
    /\ input \in Inputs
    /\ op = "none"
    /\ result = NoResult

Call(name, r) ==
    /\ op = "none"
    /\ op' = name
    /\ result' = r
    /\ UNCHANGED <<input, foldVars, saveVars, nestVars>>

CallParseValue == Call("parse_value", parse_value(input))
CallParseStr == Call("parse_str", parse_str(input))
CallParseMapKeyValuePair ==
    Call("parse_map_key_value_pair", parse_map_key_value_pair(input))
CallParseMapKvList == Call("parse_map_kv_list", parse_map_kv_list(input))
CallParseFile == Call("parse_file", parse_file(input))

InitParse == ParseInit /\ FoldInit /\ SaveIdle /\ NestInit

NextParse ==
    \/ CallParseValue
    \/ CallParseStr
    \/ CallParseMapKeyValuePair
    \/ CallParseMapKvList
    \/ CallParseFile

SpecParse == InitParse /\ [][NextParse]_vars

(***************************************************************************)
(* The two conversions of a parsed tree.  to_object gives the set of the   *)
(* Python objects the conversion can build: the pairs of a HashMap arrive  *)
(* in no fixed order, and of two keys that become the same dict key the    *)
(* one set last stays.  The JSON text is held as the document it writes.   *)
(***************************************************************************)
PyStr(s) == [py |-> "str", s |-> s]
PyInt(n) == [py |-> "int", n |-> n]
PyFloat(x) == [py |-> "float", f |-> x]

\* fixed_key without key.parse::<i64>(): every key stays text
fixed_key_text(key) == PyStr(key)

\* key.parse::<i64>(): the integer when the key is one, else the text
fixed_key(key) ==
    With(parse_i64(key), LAMBDA i : IF i.ok THEN PyInt(i.val) ELSE PyStr(key))

RECURSIVE to_object(_)
to_object(v) ==
    CASE v.tag = "Str" -> {PyStr(v.s)}
      [] v.tag = "Int" -> {PyInt(v.n)}
      [] v.tag = "Float" -> {PyFloat(v.f)}
      [] v.tag = "List" ->
            {[py |-> "list", items |-> q] :
                q \in {q \in [1..Len(v.items) ->
                                 UNION {to_object(v.items[j]) : j \in 1..Len(v.items)}] :
                          \A j \in 1..Len(v.items) : q[j] \in to_object(v.items[j])}}
      [] v.tag = "Map" ->
            {[py |-> "dict", d |-> d] :
                d \in {d \in [{fixed_key(k) : k \in DOMAIN v.hm} ->
                                 UNION {to_object(v.hm[k]) : k \in DOMAIN v.hm}] :
                          \A h \in DOMAIN d :
                              \E k \in DOMAIN v.hm :
                                  fixed_key(k) = h /\ d[h] \in to_object(v.hm[k])}}
      [] v.tag = "Color" ->
            {[py |-> "tuple",
              items |-> <<PyStr(v.c[1]), PyFloat(v.c[2]), PyFloat(v.c[3]),
                          PyFloat(v.c[4])>>]}

\* #[derive(Serialize)] #[serde(untagged)] under serde_json: a number that
\* is not finite is written null, a Color is an array of four
json_number(x) == IF x.k = "fin" THEN [json |-> "number", f |-> x] ELSE [json |-> "null"]

RECURSIVE to_json(_)
to_json(v) ==
    CASE v.tag = "Str" -> [json |-> "string", s |-> v.s]
      [] v.tag = "Int" -> [json |-> "number", n |-> v.n]
      [] v.tag = "Float" -> json_number(v.f)
      [] v.tag = "List" ->
            [json |-> "array", items |-> [j \in 1..Len(v.items) |-> to_json(v.items[j])]]
      [] v.tag = "Map" ->
            [json |-> "object", members |-> [k \in DOMAIN v.hm |-> to_json(v.hm[k])]]
      [] v.tag = "Color" ->
            [json |-> "array",
             items |-> <<[json |-> "string", s |-> v.c[1]], json_number(v.c[2]),
                         json_number(v.c[3]), json_number(v.c[4])>>]

(***************************************************************************)
(* parse_save under its two Python entry points: the call reads the save   *)
(* (load_save_content), parse_save parses meta, then gamestate, and the    *)
(* entry point converts the gamestate tree or raises PyValueError.         *)
(***************************************************************************)
\* a path as its components; the last but one names the game
SavePaths ==
    { << <<"g", "a">>, <<"s", ".", "s", "a", "v">> >>,
      << <<"g", "b">>, <<"s", ".", "s", "a", "v">> >>,
      << <<"s", ".", "s", "a", "v">> >> }   \* no directory: no game id

\* the documents a save can hold
SaveDocuments ==
    { <<"k", "=", "1">>,
      <<"k", "=", "1", " ", "k", "=", "2">>,
      <<"1", "=", "a", " ", "0", "1", "=", "b">>,
      <<"1", "=", "a", " ", "+", "1", "=", "b">>,
      <<"x", "=", "N", "a", "N">>,
      <<"k", "=", "1", " ", "x">>,   \* a remainder
      <<>> }   \* no pair

\* what is at a path: nothing that opens, no zip archive, or an archive
\* holding some of the members meta and gamestate
Archives ==
    {[kind |-> "unreadable"], [kind |-> "not_zip"]}
        \cup {[kind |-> "zip", files |-> f] :
                 f \in UNION {[S -> SaveDocuments] : S \in SUBSET {"meta", "gamestate"}}}

\* the values Instant::now() may give
Instants == {0, 1}

Callers == {"parse_save_file", "parse_save_file_to_json"}

\* the messages of parse_save, as text
FailedMeta ==
    <<"F", "a", "i", "l", "e", "d", " ", "t", "o", " ", "p", "a",
      "r", "s", "e", " ", "s", "a", "v", "e", " ", "m", "e", "t",
      "a", "d", "a", "t", "a">>
FailedGamestate ==
    <<"F", "a", "i", "l", "e", "d", " ", "t", "o", " ", "p", "a",
      "r", "s", "e", " ", "s", "a", "v", "e", " ", "g", "a", "m",
      "e", "s", "t", "a", "t", "e">>

\* the messages of load_save_content
CouldNotDetermineGameId ==
    <<"C", "o", "u", "l", "d", " ", "n", "o", "t", " ", "d", "e",
      "t", "e", "r", "m", "i", "n", "e", " ", "g", "a", "m", "e",
      " ", "I", "D">>
FailedToOpenFile ==
    <<"F", "a", "i", "l", "e", "d", " ", "t", "o", " ", "o", "p",
      "e", "n", " ", "f", "i", "l", "e">>
FailedToReadZipArchive ==
    <<"F", "a", "i", "l", "e", "d", " ", "t", "o", " ", "r", "e",
      "a", "d", " ", "z", "i", "p", " ", "a", "r", "c", "h", "i",
      "v", "e">>
CouldNotLocateFile ==
    <<"C", "o", "u", "l", "d", " ", "n", "o", "t", " ", "l", "o",
      "c", "a", "t", "e", " ", "f", "i", "l", "e", " ", "i", "n",
      " ", "z", "i", "p", " ", "a", "r", "c", "h", "i", "v", "e">>

\* the openings of the two messages of the entry points
FailedToRead ==
    <<"F", "a", "i", "l", "e", "d", " ", "t", "o", " ", "r", "e",
      "a", "d", " ">>
FailedToParse ==
    <<"F", "a", "i", "l", "e", "d", " ", "t", "o", " ", "p", "a",
      "r", "s", "e", " ">>

\* a path written out, its components joined by /
RECURSIVE PathText(_)
PathText(path) ==
    IF path = <<>> THEN <<>>
    ELSE IF Len(path) = 1 THEN path[1]
    ELSE path[1] \o <<"/">> \o PathText(Tail(path))

SaveFile(filename, game_id, m, g) ==
    [filename |-> filename, game_id |-> game_id, meta |-> m, gamestate |-> g]

ParsedSaveFile(g, m, game_id, parsed_time) ==
    [gamestate |-> g, meta |-> m, game_id |-> game_id, parsed_time |-> parsed_time]

PyOk(v) == [ok |-> TRUE, val |-> v]
\* PyValueError::new_err(format!("Failed to ... {}: {}", save_path, msg))
PyValueError(opening, path, msg) ==
    [ok |-> FALSE, exc |-> "PyValueError",
     msg |-> opening \o PathText(path) \o <<":", " ">> \o msg]

load_save_content(filename, archive) ==
    IF Len(filename) < 2 THEN ResultErr(CouldNotDetermineGameId)
    ELSE IF archive.kind = "unreadable" THEN ResultErr(FailedToOpenFile)
    ELSE IF archive.kind = "not_zip" THEN ResultErr(FailedToReadZipArchive)
    ELSE IF {"meta", "gamestate"} \subseteq DOMAIN archive.files
    THEN ResultOk(SaveFile(filename, filename[Len(filename) - 1],
                           archive.files["meta"], archive.files["gamestate"]))
    ELSE ResultErr(CouldNotLocateFile)

\* either entry point, up to its call of parse_save
LoadSave(c, path, archive) ==
    /\ pc = "idle"
    /\ caller' = c
    /\ save_path' = path
    /\ With(load_save_content(path, archive), LAMBDA sf :
          IF sf.ok
          THEN /\ save_file' = sf.val
               /\ pc' = "parse_meta"
               /\ py_result' = py_result
          ELSE /\ save_file' = save_file
               /\ pc' = "done"
               /\ py_result' = PyValueError(FailedToRead, path, sf.err))
    /\ UNCHANGED <<meta, gamestate, parsed_save, foldVars, parseVars, nestVars>>

\* parse_save: the first match
ParseSaveMeta ==
    /\ pc = "parse_meta"
    /\ meta' = parse_file(save_file.meta)
    /\ IF meta'.ok
       THEN /\ pc' = "parse_gamestate"
            /\ parsed_save' = parsed_save
       ELSE /\ pc' = "return"
            /\ parsed_save' = ResultErr(FailedMeta)
    /\ UNCHANGED <<caller, save_path, save_file, gamestate, py_result,
                   foldVars, parseVars, nestVars>>

\* the second match with a gamestate that fails taken as an empty Map
ParseSaveGamestate_or_default ==
    /\ pc = "parse_gamestate"
    /\ gamestate' = parse_file(save_file.gamestate)
    /\ \E parsed_time \in Instants :
          parsed_save' =
              ResultOk(ParsedSaveFile(
                  IF gamestate'.ok THEN gamestate'.val ELSE Value_Map(EmptyMap),
                  meta.val, save_file.game_id, parsed_time))
    /\ pc' = "return"
    /\ UNCHANGED <<caller, save_path, save_file, meta, py_result,
                   foldVars, parseVars, nestVars>>

\* parse_save: the second match and the result
ParseSaveGamestate ==
    /\ pc = "parse_gamestate"
    /\ gamestate' = parse_file(save_file.gamestate)
    /\ IF gamestate'.ok
       THEN \E parsed_time \in Instants :
                parsed_save' =
                    ResultOk(ParsedSaveFile(gamestate'.val, meta.val,
                                            save_file.game_id, parsed_time))
       ELSE parsed_save' = ResultErr(FailedGamestate)
    /\ pc' = "return"
    /\ UNCHANGED <<caller, save_path, save_file, meta, py_result,
                   foldVars, parseVars, nestVars>>

\* parse_save_file: match parse_save(&save_file)
ParseSaveFileReturn ==
    /\ pc = "return"
    /\ caller = "parse_save_file"
    /\ IF parsed_save.ok
       THEN \E pyobject \in to_object(parsed_save.val.gamestate) :
                py_result' = PyOk(pyobject)
       ELSE py_result' = PyValueError(FailedToParse, save_path, parsed_save.err)
    /\ pc' = "done"
    /\ UNCHANGED <<caller, save_path, save_file, meta, gamestate, parsed_save,
                   foldVars, parseVars, nestVars>>

\* parse_save_file_to_json: match parse_save(&save_file)
ParseSaveFileToJsonReturn ==
    /\ pc = "return"
    /\ caller = "parse_save_file_to_json"
    /\ IF parsed_save.ok
       THEN py_result' = PyOk(to_json(parsed_save.val.gamestate))
       ELSE py_result' = PyValueError(FailedToParse, save_path, parsed_save.err)
    /\ pc' = "done"
    /\ UNCHANGED <<caller, save_path, save_file, meta, gamestate, parsed_save,
                   foldVars, parseVars, nestVars>>

InitSave == FoldInit /\ ParseIdle /\ SaveIdle /\ NestInit

NextSave ==
    \/ \E c \in Callers, path \in SavePaths, archive \in Archives :
           LoadSave(c, path, archive)
    \/ ParseSaveMeta
    \/ ParseSaveGamestate
    \/ ParseSaveFileReturn
    \/ ParseSaveFileToJsonReturn

SpecSave == InitSave /\ [][NextSave]_vars

(***************************************************************************)
(* Map bodies within map bodies.  parse_map_inner creates its set of       *)
(* wrapped keys, parses its kv_list, the maps among the values each by an  *)
(* activation of its own that runs to its end, and only then folds.        *)
(***************************************************************************)
NestKeys == {<<"x">>}
NestValues == {Value_Int(1), Value_List(<<>>), Value_List(<<Value_Int(1)>>)}

Top == frames[Len(frames)]
SetTop(f) == [frames EXCEPT ![Len(frames)] = f]

\* the set of wrapped keys a loop works on, of every set any loop has
\* filled: the one all loops share
loop_handled_shared(own, every) == own \cup every

\* the set of wrapped keys a loop works on: the local of its activation
loop_handled(own, every) == own

\* a pair whose value is not a map, parsed into the kv_list of the body
NestParsePair(key, value) ==
    /\ Top.i = 0
    /\ pairs_parsed < MaxNestPairs
    /\ frames' = SetTop([Top EXCEPT !.kv = Append(@, <<key, value>>)])
    /\ pairs_parsed' = pairs_parsed + 1
    /\ UNCHANGED <<all_handled, foldVars, parseVars, saveVars>>

\* a pair whose value is a map: parse_map calls parse_map_inner
NestEnterMap(key) ==
    /\ Top.i = 0
    /\ Len(frames) < MaxDepth
    /\ pairs_parsed < MaxNestPairs
    /\ frames' = Append(frames, Frame(key))
    /\ pairs_parsed' = pairs_parsed + 1
    /\ UNCHANGED <<all_handled, foldVars, parseVars, saveVars>>

\* one iteration of the loop of the innermost activation
NestFoldPair ==
    /\ Top.i < Len(Top.kv)
    /\ With(fold_pair(FoldState(Top.hm, loop_handled(Top.handled, all_handled)),
                      Top.kv[Top.i + 1][1], Top.kv[Top.i + 1][2]),
            LAMBDA fs :
                /\ frames' = SetTop([Top EXCEPT !.hm = fs.hm,
                                                !.handled = fs.handled,
                                                !.i = @ + 1])
                /\ all_handled' = all_handled \cup fs.handled)
    /\ UNCHANGED <<pairs_parsed, foldVars, parseVars, saveVars>>

\* the innermost activation returns its map, the value of a pair of the
\* enclosing body
NestExitMap ==
    /\ Len(frames) > 1
    /\ Top.kv # <<>>
    /\ Top.i = Len(Top.kv)
    /\ frames' =
          [n \in 1..(Len(frames) - 1) |->
              IF n = Len(frames) - 1
              THEN [frames[n] EXCEPT !.kv = Append(@, <<Top.key, Value_Map(Top.hm)>>)]
              ELSE frames[n]]
    /\ UNCHANGED <<all_handled, pairs_parsed, foldVars, parseVars, saveVars>>

InitNest == FoldInit /\ ParseIdle /\ SaveIdle /\ NestInit

NextNest ==
    \/ \E key \in NestKeys, value \in NestValues : NestParsePair(key, value)
    \/ \E key \in NestKeys : NestEnterMap(key)
    \/ NestFoldPair
    \/ NestExitMap

SpecNest == InitNest /\ [][NextNest]_vars

(***************************************************************************)
(* The folding rule as the specification words it, key by key: the values  *)
(* of one key in order of appearance, a stored value and an already-nested *)
(* flag.                                                                   *)
(***************************************************************************)
KeysSeen(kvs) == {kvs[i][1] : i \in 1..Len(kvs)}
Positions(kvs, k) == {i \in 1..Len(kvs) : kvs[i][1] = k}
Occurrences(kvs, k) == Cardinality(Positions(kvs, k))

RECURSIVE ValuesOf(_, _)
ValuesOf(kvs, k) ==
    IF kvs = <<>> THEN <<>>
    ELSE LET init == ValuesOf(SubSeq(kvs, 1, Len(kvs) - 1), k)
             last == kvs[Len(kvs)]
         IN  IF last[1] = k THEN Append(init, last[2]) ELSE init

RuleStep(st, v) ==
    IF ~st.has THEN [has |-> TRUE, stored |-> v, flag |-> FALSE]
    ELSE IF st.stored.tag # "List"
    THEN [has |-> TRUE, stored |-> Value_List(<<st.stored, v>>), flag |-> st.flag]
    ELSE IF v.tag = "List" /\ ~st.flag
    THEN [has |-> TRUE, stored |-> Value_List(<<st.stored, v>>), flag |-> TRUE]
    ELSE [has |-> TRUE, stored |-> Value_List(st.stored.items \o <<v>>),
          flag |-> st.flag]

RECURSIVE RuleFold(_)
RuleFold(vals) ==
    IF vals = <<>> THEN [has |-> FALSE, stored |-> Value_Int(0), flag |-> FALSE]
    ELSE RuleStep(RuleFold(SubSeq(vals, 1, Len(vals) - 1)), vals[Len(vals)])

\* C1: after every pair of a map body, the map built by parse_map_inner is
\* the one the left-to-right folding rule gives, key by key: the first
\* occurrence stores v, a stored non-List becomes List[stored, v] with the
\* flag still false, a stored List S becomes List[S, v] (flag set) when v is
\* a List and the flag is false, and otherwise gets v appended; the keys in
\* handled_nested_list_keys are exactly those whose flag is set.
C1_FoldFollowsRule ==
    /\ DOMAIN hm = KeysSeen(kv_list)
    /\ \A k \in KeysSeen(kv_list) :
          /\ hm[k] = RuleFold(ValuesOf(kv_list, k)).stored
          /\ (k \in handled_nested_list_keys) = RuleFold(ValuesOf(kv_list, k)).flag

\* a key wrapped once (two Lists) and then given a third List, which is
\* appended to the outer List
C1_Witness ==
    \E k \in DOMAIN hm :
        /\ k \in handled_nested_list_keys
        /\ Occurrences(kv_list, k) = 3
        /\ \A i \in Positions(kv_list, k) : IsList(kv_list[i][2])
        /\ Len(hm[k].items) = 3

\* C2: a key that occurs n >= 2 times with values v1..vn, none of them a
\* List or all of them Lists, is bound to List[v1, ..., vn]: the values in
\* order of appearance, each intact, none dropped or duplicated.
C2_RepeatedKeyList ==
    \A k \in KeysSeen(kv_list) :
        LET vals == ValuesOf(kv_list, k)
        IN  (/\ Len(vals) >= 2
             /\ \/ \A i \in 1..Len(vals) : ~IsList(vals[i])
                \/ \A i \in 1..Len(vals) : IsList(vals[i]))
            => hm[k] = Value_List(vals)

\* x={1} x={} x={1 2}: a key given three Lists, bound to the List of the
\* three, each intact
C2_Witness ==
    \E k \in DOMAIN hm :
        LET vals == ValuesOf(kv_list, k)
        IN  /\ Len(vals) = 3
            /\ vals[1] # vals[2]
            /\ vals[2] # vals[3]
            /\ \A i \in 1..3 : IsList(vals[i])
            /\ hm[k] = Value_List(vals)

\* C3: at every step of the fold the map has exactly one entry per distinct
\* key seen so far; a key seen two or more times is bound to a List of at
\* least one element; an empty List is bound only to a key that occurred
\* once, with the source value {}.
C3_FoldShape ==
    /\ DOMAIN hm = KeysSeen(kv_list)
    /\ \A k \in KeysSeen(kv_list) :
          /\ Occurrences(kv_list, k) >= 2
                => IsList(hm[k]) /\ Len(hm[k].items) >= 1
          /\ hm[k] = Value_List(<<>>)
                => /\ Occurrences(kv_list, k) = 1
                   /\ ValuesOf(kv_list, k) = <<Value_List(<<>>)>>

\* x={} x=1: the key seen twice holds a List of one element, beside a key
\* seen once with {}
C3_Witness ==
    \E k, j \in DOMAIN hm :
        /\ Occurrences(kv_list, k) = 2
        /\ Len(hm[k].items) = 1
        /\ Occurrences(kv_list, j) = 1
        /\ hm[j] = Value_List(<<>>)

(***************************************************************************)
(* Claims about one call of a parser function.                             *)
(***************************************************************************)
\* the input is a key, then whitespace alone, then a value
KeyBlankValue(i) ==
    LET k == parse_key(i)
    IN  /\ IsOk(k)
        /\ IsOk(multispace1(k.rest))
        /\ IsOk(parse_value(multispace1(k.rest).rest))

C5_ParseFileWholeDocument ==
    op = "parse_file"
        => LET body == parse_map_kv_list(input)
           IN  /\ result.ok
                    <=> /\ IsOk(body)
                        /\ \A j \in 1..Len(body.rest) : body.rest[j] \in Whitespace
               /\ result.ok
                    => /\ result.val.tag = "Map"
                       /\ Len(body.val) >= 1
                       /\ DOMAIN result.val.hm = KeysSeen(body.val)
               /\ (IsOk(body) /\ \E j \in 1..Len(body.rest) : body.rest[j] \notin Whitespace)
                    => /\ ~result.ok
                       /\ "val" \notin DOMAIN result
                       /\ result.err = body.rest

\* `k=1 x`: pairs, then a remainder that is not whitespace, and an error that
\* carries the remainder
C5_Witness ==
    /\ op = "parse_file"
    /\ IsOk(parse_map_kv_list(input))
    /\ Len(parse_map_kv_list(input).val) >= 1
    /\ ~result.ok
    /\ result.err = parse_map_kv_list(input).rest
    /\ result.err # <<>>

\* the alternatives of parse_value, in the order of its alt
Alternatives(i) ==
    << map_value(parse_date_str(i), "Str"),
       map_value(parse_int(i), "Int"),
       map_value(parse_float(i), "Float"),
       map_value(parse_str(i), "Str"),
       map_value(parse_color(i), "Color"),
       map_value(parse_unquoted_str(i), "Str"),
       map_value(parse_list(i), "List"),
       map_value(parse_map(i), "Map") >>

\* C6: parse_value returns the result of the first alternative, in the order
\* date, integer, float, quoted string, color, unquoted identifier, list,
\* map, that succeeds at the current position, and fails only when none
\* does.
C6_FirstSuccessfulAlternative ==
    op = "parse_value"
        => LET alts == Alternatives(input)
               S == {n \in 1..8 : IsOk(alts[n])}
           IN  IF S = {} THEN ~IsOk(result)
               ELSE result = alts[CHOOSE n \in S : \A m \in S : n <= m]

\* the input is a key, a separator, an unquoted identifier, a separator and
\* a value
SkipKeyShape(i) ==
    LET k == parse_key(i)
        k2 == parse_unquoted_str(parse_map_key_value_separator(k.rest).rest)
    IN  /\ IsOk(k)
        /\ IsOk(parse_map_key_value_separator(k.rest))
        /\ IsOk(k2)
        /\ IsOk(parse_map_key_value_separator(k2.rest))
        /\ IsOk(parse_value(parse_map_key_value_separator(k2.rest).rest))

SkipKeyOuter(i) == parse_key(i)
SkipKeyInner(i) ==
    parse_unquoted_str(parse_map_key_value_separator(parse_key(i).rest).rest)
SkipKeyValue(i) ==
    parse_value(parse_map_key_value_separator(SkipKeyInner(i).rest).rest)

\* C7: for k1 = k2 = v with k2 an unquoted identifier and v a value,
\* parse_map_key_value_pair yields the single pair (k1, v); a body made of
\* such a pair alone is the Map with the one entry k1 -> v, and the pairs
\* that follow it in a body are parsed as they are on their own.
C7_SkipKey ==
    SkipKeyShape(ws(input))
        => LET k == SkipKeyOuter(ws(input))
               v == SkipKeyValue(ws(input))
               more == parse_map_kv_list(v.rest)
           IN  /\ op = "parse_map_key_value_pair"
                    => result = Ok(v.rest, <<k.val, v.val>>)
               /\ (op = "parse_map_kv_list" /\ IsOk(multispace1(v.rest)) /\ IsOk(more))
                    => result = Ok(more.rest, <<<<k.val, v.val>>>> \o more.val)
               /\ (op = "parse_file" /\ \A j \in 1..Len(v.rest) : v.rest[j] \in Whitespace)
                    => result = ResultOk(Value_Map([x \in {k.val} |-> v.val]))

\* `k=j=1`: the pair (k, 1), the inner key j dropped
C7_Witness ==
    /\ op = "parse_map_key_value_pair"
    /\ SkipKeyShape(input)
    /\ IsOk(result)
    /\ result.val[1] = SkipKeyOuter(input).val
    /\ result.val[1] # SkipKeyInner(input).val
    /\ result.val[2] = Value_Int(1)

RECURSIVE ContainsNaN(_)
ContainsNaN(v) ==
    CASE v.tag = "Float" -> v.f = NaN
      [] v.tag = "Color" -> \E j \in 2..4 : v.c[j] = NaN
      [] v.tag = "List" -> \E j \in 1..Len(v.items) : ContainsNaN(v.items[j])
      [] v.tag = "Map" -> \E k \in DOMAIN v.hm : ContainsNaN(v.hm[k])
      [] OTHER -> FALSE

\* C8: no Value::Float in a result of parse_value or parse_file, the three
\* components of a Color included, is NaN.
C8_NeverNaN ==
    /\ (op = "parse_value" /\ IsOk(result)) => ~ContainsNaN(result.val)
    /\ (op = "parse_file" /\ result.ok) => ~ContainsNaN(result.val)

\* the number of backslashes right before position p of s
RECURSIVE BackslashRun(_, _)
BackslashRun(s, p) ==
    IF p > 1 /\ s[p - 1] = "\\" THEN 1 + BackslashRun(s, p - 1) ELSE 0

\* a character of s that no backslash escapes
Unescaped(s, p) == BackslashRun(s, p) % 2 = 0

\* C9: a quoted string yields the raw slice between the opening quote and
\* the first quote after it that no backslash escapes, \" and \\ kept as
\* written; it is accepted when every escaping backslash before that quote
\* is followed by a quote or a backslash.
C9_RawSlice ==
    op = "parse_str"
        => IF ~CharAt(ws(input), 1, "\"") THEN result = Err("Error")
           ELSE LET body == Drop(ws(input), 1)
                    Closing == {p \in 1..Len(body) :
                                   body[p] = "\"" /\ Unescaped(body, p)}
                    first == CHOOSE p \in Closing : \A q \in Closing : p <= q
                    Bad == {p \in 1..Len(body) - 1 :
                               /\ body[p] = "\\"
                               /\ Unescaped(body, p)
                               /\ body[p + 1] \notin QuoteOrBackslash}
                IN  /\ IsOk(result)
                         => /\ Closing # {}
                            /\ result.val = Take(body, first - 1)
                            /\ result.rest = Drop(body, first)
                    /\ (Closing # {} /\ \A p \in Bad : p > first)
                         => IsOk(result)

\* a string that holds an escaped quote and ends in an escaped backslash,
\* both kept as written
C9_Witness ==
    /\ op = "parse_str"
    /\ IsOk(result)
    /\ \E p \in 1..Len(result.val) - 1 :
           result.val[p] = "\\" /\ result.val[p + 1] = "\""
    /\ Len(result.val) >= 2
    /\ result.val[Len(result.val)] = "\\"
    /\ result.val[Len(result.val) - 1] = "\\"

(***************************************************************************)
(* Claims about parse_save and its callers.                                *)
(***************************************************************************)
\* C10: parse_save returns a ParsedSaveFile, with both trees and the game_id
\* of its input, if and only if both meta and gamestate parse; meta is
\* parsed first, a meta that fails gives the metadata failure whatever
\* gamestate holds (gamestate is not parsed), a gamestate that fails after
\* meta gives the gamestate failure; no result carries one tree alone; and
\* the two entry points fail when either document fails, and otherwise
\* return a conversion of the gamestate tree alone.
C10_AllOrNothing ==
    LET m == parse_file(save_file.meta)
        g == parse_file(save_file.gamestate)
    IN  /\ pc = "parse_gamestate"
             => meta = m /\ m.ok /\ gamestate = NoResult /\ parsed_save = NoResult
        /\ parsed_save # NoResult
             => /\ parsed_save.ok <=> (m.ok /\ g.ok)
                /\ parsed_save.ok
                     => /\ DOMAIN parsed_save.val
                            = {"gamestate", "meta", "game_id", "parsed_time"}
                        /\ parsed_save.val.meta = m.val
                        /\ parsed_save.val.gamestate = g.val
                        /\ parsed_save.val.game_id = save_file.game_id
                        /\ save_file.game_id = save_path[Len(save_path) - 1]
                /\ ~parsed_save.ok => "val" \notin DOMAIN parsed_save
                /\ ~m.ok => parsed_save = ResultErr(FailedMeta) /\ gamestate = NoResult
                /\ (m.ok /\ ~g.ok) => parsed_save = ResultErr(FailedGamestate)
        /\ (pc = "done" /\ save_file # NoSave)
             => /\ py_result.ok <=> (m.ok /\ g.ok)
                /\ py_result.ok
                     => IF caller = "parse_save_file"
                        THEN py_result.val \in to_object(g.val)
                        ELSE py_result.val = to_json(g.val)
                /\ ~py_result.ok
                     => py_result = PyValueError(FailedToParse, save_path, parsed_save.err)

\* a meta that fails before a gamestate that would parse: the metadata
\* failure, the gamestate never parsed, and the entry point raising
C10_Witness ==
    /\ pc = "done"
    /\ save_file # NoSave
    /\ ~parse_file(save_file.meta).ok
    /\ parse_file(save_file.gamestate).ok
    /\ parsed_save = ResultErr(FailedMeta)
    /\ gamestate = NoResult
    /\ ~py_result.ok

\* part occurs in text
Contains(text, part) ==
    \E i \in 0..(Len(text) - Len(part)) : SubSeq(text, i + 1, i + Len(part)) = part

MetadataWord == <<"m", "e", "t", "a", "d", "a", "t", "a">>
GamestateWord == <<"g", "a", "m", "e", "s", "t", "a", "t", "e">>

\* the document whose parse failed under parse_save: meta, else gamestate
FailedDocumentWord == IF ~parse_file(save_file.meta).ok THEN MetadataWord ELSE GamestateWord
FailedDocumentCause ==
    IF ~parse_file(save_file.meta).ok THEN parse_file(save_file.meta).err
    ELSE parse_file(save_file.gamestate).err

\* C11: when a document fails to parse, the failure returned by parse_save,
\* and the message raised by the entry point, names the document that failed
\* and carries the error string of that document's parse: the unconsumed
\* remainder, or the grammar failure.
C11_FailureCarriesCause ==
    /\ (parsed_save # NoResult /\ ~parsed_save.ok)
          => /\ Contains(parsed_save.err, FailedDocumentWord)
             /\ Contains(parsed_save.err, FailedDocumentCause)
    /\ (pc = "done" /\ save_file # NoSave /\ ~py_result.ok)
          => /\ Contains(py_result.msg, FailedDocumentWord)
             /\ Contains(py_result.msg, FailedDocumentCause)

\* the text of the key a pair starts with: what stands between the quotes
\* of a quoted key, or the unquoted identifier
KeyText(i) ==
    IF CharAt(ws(i), 1, "\"") THEN escaped(Drop(ws(i), 1), 0).val
    ELSE parse_unquoted_str(i).val

\* the input is a body of two pairs with the same key text, the key quoted
\* in one pair and unquoted in the other
QuotedAndUnquotedKey(i) ==
    LET p1 == parse_map_key_value_pair(i)
        s == multispace1(p1.rest)
        p2 == parse_map_key_value_pair(s.rest)
    IN  /\ IsOk(p1)
        /\ IsOk(s)
        /\ IsOk(p2)
        /\ KeyText(i) = KeyText(s.rest)
        /\ CharAt(ws(i), 1, "\"") # CharAt(ws(s.rest), 1, "\"")
        /\ \A j \in 1..Len(p2.rest) : p2.rest[j] \in Whitespace

FirstPair(i) == parse_map_key_value_pair(i).val
SecondPair(i) ==
    parse_map_key_value_pair(
        multispace1(parse_map_key_value_pair(i).rest).rest).val

\* C12 as stated: a quoted key and an unquoted key with the same text are
\* distinct map keys: a body holding both yields a Map with two entries, one
\* bound to the value of each, and the values are not folded into one List.
C12_DistinctKeys ==
    (op = "parse_file" /\ QuotedAndUnquotedKey(input))
        => /\ result.ok
           /\ Cardinality(DOMAIN result.val.hm) = 2
           /\ \E k1, k2 \in DOMAIN result.val.hm :
                 /\ k1 # k2
                 /\ result.val.hm[k1] = FirstPair(input)[2]
                 /\ result.val.hm[k2] = SecondPair(input)[2]

\* C12 as amended: a quoted key and an unquoted key with the same text are
\* the same map key: a body holding both yields a Map with one entry for
\* that text, bound to the two values folded by the repeated-key rule
\* (List[v1, v2] when the first is not a List).
C12_SameKeyFolded ==
    (op = "parse_file" /\ QuotedAndUnquotedKey(input))
        => LET k == KeyText(input)
               v1 == FirstPair(input)[2]
               v2 == SecondPair(input)[2]
           IN  /\ result.ok
               /\ DOMAIN result.val.hm = {k}
               /\ result.val.hm[k] = RuleFold(<<v1, v2>>).stored
               /\ ~IsList(v1) => result.val.hm[k] = Value_List(<<v1, v2>>)

\* `"k"=v k=1`: one entry k, bound to List[Str(v), Int(1)]
C12_Witness ==
    /\ op = "parse_file"
    /\ QuotedAndUnquotedKey(input)
    /\ CharAt(input, 1, "\"")
    /\ FirstPair(input)[2].tag = "Str"
    /\ result.ok
    /\ DOMAIN result.val.hm = {KeyText(input)}
    /\ result.val.hm[KeyText(input)]
           = Value_List(<<FirstPair(input)[2], SecondPair(input)[2]>>)

RECURSIVE NoEmptyMap(_)
NoEmptyMap(v) ==
    CASE v.tag = "Map" ->
            /\ DOMAIN v.hm # {}
            /\ \A k \in DOMAIN v.hm : NoEmptyMap(v.hm[k])
      [] v.tag = "List" -> \A j \in 1..Len(v.items) : NoEmptyMap(v.items[j])
      [] OTHER -> TRUE

\* the input is all whitespace, or empty
Blank(i) == \A j \in 1..Len(i) : i[j] \in Whitespace

\* C13: no Map in a successful result of parse_value or parse_file is
\* empty; braces around nothing or around whitespace, where a value stands,
\* yield the empty List; parse_file on an empty or all-whitespace document
\* fails.
C13_NoEmptyMap ==
    /\ (op = "parse_value" /\ IsOk(result)) => NoEmptyMap(result.val)
    /\ (op = "parse_file" /\ result.ok) => NoEmptyMap(result.val)
    /\ (op = "parse_value" /\ CharAt(input, 1, "{")
            /\ CharAt(ws(Drop(input, 1)), 1, "}"))
          => result = Ok(Drop(ws(Drop(input, 1)), 1), Value_List(<<>>))
    /\ (op = "parse_file" /\ Blank(input))
          => result = ResultErr(ParsingFailed)

\* `{ }` where a value stands: the empty List
C13_Witness ==
    /\ op = "parse_value"
    /\ Len(input) >= 3
    /\ input[1] = "{"
    /\ input[2] = " "
    /\ input[3] = "}"
    /\ IsOk(result)
    /\ result.val = Value_List(<<>>)

(***************************************************************************)
(* Claims about map bodies within map bodies.                              *)
(***************************************************************************)
\* C14: the already-nested flag is local to one map body: in every body,
\* whatever keys were wrapped in nested or sibling bodies, the map and the
\* flags after each pair are those the folding rule gives on the pairs of
\* that body alone, each key starting unflagged; and while an inner body is
\* parsed and folded, the fold of every enclosing body is untouched (it has
\* stored nothing and flagged nothing).
C14_FlagLocal ==
    \A n \in 1..Len(frames) :
        LET f == frames[n]
            done == Take(f.kv, f.i)
        IN  /\ DOMAIN f.hm = KeysSeen(done)
            /\ f.handled \subseteq KeysSeen(done)
            /\ \A k \in KeysSeen(done) :
                  /\ f.hm[k] = RuleFold(ValuesOf(done, k)).stored
                  /\ (k \in f.handled) = RuleFold(ValuesOf(done, k)).flag
            /\ n < Len(frames)
                  => f.i = 0 /\ f.hm = EmptyMap /\ f.handled = {}

\* x={x={} x={1}} x={} x={}: the key wrapped in the outer body after it was
\* wrapped in the nested one
C14_Witness ==
    /\ Len(frames) = 1
    /\ Top.i = Len(Top.kv)
    /\ \E k \in Top.handled :
          /\ Len(Top.hm[k].items) = 2
          /\ \E j \in 1..Len(Top.kv) :
                /\ Top.kv[j][2].tag = "Map"
                /\ k \in DOMAIN Top.kv[j][2].hm
                /\ IsList(Top.kv[j][2].hm[k])
                /\ Len(Top.kv[j][2].hm[k].items) = 2
                /\ \A e \in 1..2 : IsList(Top.kv[j][2].hm[k].items[e])

(***************************************************************************)
(* Claims about a list value met first.                                    *)
(***************************************************************************)
\* the occurrences of a key that follow its first one and come before its
\* first later list value: the length of that run, first occurrence included
RECURSIVE ScalarRun(_, _)
ScalarRun(vs, j) ==
    IF j < Len(vs) /\ ~IsList(vs[j + 1]) THEN ScalarRun(vs, j + 1) ELSE j

\* the elements of the first value followed by the values of the run
Extended(vs, j) == Value_List(vs[1].items \o SubSeq(vs, 2, j))

\* C15: when the first occurrence of a key has a List value L and the next
\* occurrences, before any wrap, have non-List values, the fold appends
\* these to L's own elements, giving List(L ++ [v]) and not List[L, v], so
\* the folded List has one element per occurrence only if L had exactly one
\* element; the flag stays false, and a following List value M wraps to
\* List[List(L ++ [v]), M] and sets the flag.
C15_ListFirstAppends ==
    \A k \in KeysSeen(kv_list) :
        LET vs == ValuesOf(kv_list, k)
            j == ScalarRun(vs, 1)
        IN  Len(vs) >= 2 /\ IsList(vs[1]) /\ j >= 2 =>
              /\ Len(vs) = j =>
                    /\ hm[k] = Extended(vs, j)
                    /\ hm[k] # Value_List(<<vs[1], vs[2]>>)
                    /\ k \notin handled_nested_list_keys
                    /\ (Len(hm[k].items) = Len(vs)) = (Len(vs[1].items) = 1)
              /\ Len(vs) = j + 1 =>
                    /\ hm[k] = Value_List(<<Extended(vs, j), vs[j + 1]>>)
                    /\ k \in handled_nested_list_keys

\* x={} x=1 x={...}: List[List[1], M], after x={} x=1 gave List[1]
C15_Witness ==
    \E k \in KeysSeen(kv_list) :
        LET vs == ValuesOf(kv_list, k)
        IN  /\ Len(vs) = 3
            /\ IsList(vs[1]) /\ vs[1].items = <<>>
            /\ ~IsList(vs[2])
            /\ IsList(vs[3])
            /\ hm[k] = Value_List(<<Value_List(<<vs[2]>>), vs[3]>>)
            /\ k \in handled_nested_list_keys

(***************************************************************************)
(* Claims about the keys of the converted tree.                            *)
(***************************************************************************)
\* C16: in the host object of a Map each text key that parses as an integer
\* is that integer and every other key stays text, each entry holding the
\* conversion of a value bound to a key that became its key; two distinct
\* text keys denoting the same integer become one host key, so the dict has
\* fewer entries than the Map; the JSON object keeps every text key as a
\* member of its own.
C16_IntegerKeys ==
    (pc = "done" /\ py_result # NoResult /\ py_result.ok) =>
        LET g == parsed_save.val.gamestate.hm
            HostKey(k) == IF parse_i64(k).ok THEN PyInt(parse_i64(k).val)
                          ELSE PyStr(k)
            obj == py_result.val
        IN  IF caller = "parse_save_file"
            THEN /\ obj.py = "dict"
                 /\ DOMAIN obj.d = {HostKey(k) : k \in DOMAIN g}
                 /\ \A h \in DOMAIN obj.d :
                       \E k \in DOMAIN g :
                           HostKey(k) = h /\ obj.d[h] \in to_object(g[k])
                 /\ (\E k1, k2 \in DOMAIN g :
                        /\ k1 # k2
                        /\ parse_i64(k1).ok /\ parse_i64(k2).ok
                        /\ parse_i64(k1).val = parse_i64(k2).val)
                       => Cardinality(DOMAIN obj.d) < Cardinality(DOMAIN g)
            ELSE /\ obj.json = "object"
                 /\ DOMAIN obj.members = DOMAIN g
                 /\ \A k \in DOMAIN g :
                       g[k].tag = "Str"
                          => obj.members[k] = [json |-> "string", s |-> g[k].s]

\* 1=a +1=b: a Map of two keys converted to a dict of the one key 1
C16_Witness ==
    /\ pc = "done"
    /\ caller = "parse_save_file"
    /\ py_result # NoResult /\ py_result.ok
    /\ DOMAIN parsed_save.val.gamestate.hm = {<<"1">>, <<"+", "1">>}
    /\ DOMAIN py_result.val.d = {PyInt(1)}
    /\ py_result.val.d[PyInt(1)] = PyStr(<<"a">>)

=============================================================================
